---- MODULE Spec2Model ----
(***************************************************************************)
(* Ticket lifecycle of gvmd (src/manage_sql_tickets.c): the tickets and    *)
(* tickets_trash tables, the tag and permission rows that reference        *)
(* tickets, and the operations create_ticket, modify_ticket,               *)
(* delete_ticket, restore_ticket and copy_ticket.                          *)
(***************************************************************************)
EXTENDS Integers, FiniteSets, Sequences, TLC

(***************************************************************************)
(* Bounds of the model.                                                    *)
(***************************************************************************)
MaxTicket == 2
MaxTrashTicket == 1
MaxTime == 1
MaxTag == 1
MaxPermission == 1

Users == {1, 2}
Names == {"a", "b"}
Comments == {"c"}
Uuids == 1..MaxTicket
NULL == "NULL"

LOCATION_TABLE == "table"
LOCATION_TRASH == "trash"

PermissionNames == {"modify_ticket", "delete_ticket"}

VARIABLES
  tickets,              \* rows of table tickets
  tickets_trash,        \* rows of table tickets_trash
  tag_resources,        \* tag references (tag, resource, resource_location)
  permissions,          \* permission references (name, subject, resource, resource_location)
  next_ticket,          \* next id the store assigns in tickets
  next_trash_ticket,    \* next id the store assigns in tickets_trash
  next_uuid,            \* next value make_uuid () returns
  now,                  \* the clock read by m_now ()
  current_credentials,  \* the acting user
  last,                 \* the last call that returned 0
  trashed_from,         \* per uuid in the trashcan, the tickets row the soft delete moved (as a set)
  destroyed,            \* uuids removed by an ultimate delete
  session,              \* per concurrent caller, the call it is in
  lock                  \* the caller whose transaction holds the write lock, or 0

dbvars == <<tickets, tickets_trash, tag_resources, permissions,
            next_ticket, next_trash_ticket, next_uuid>>
vars == <<tickets, tickets_trash, tag_resources, permissions,
          next_ticket, next_trash_ticket, next_uuid, now,
          current_credentials, last, trashed_from, destroyed, session, lock>>

(***************************************************************************)
(* The database as one value, so that a handler is a function from the     *)
(* database before the call to the database it commits.                    *)
(***************************************************************************)
DB ==
  [tickets |-> tickets, tickets_trash |-> tickets_trash,
   tag_resources |-> tag_resources, permissions |-> permissions,
   next_ticket |-> next_ticket, next_trash_ticket |-> next_trash_ticket,
   next_uuid |-> next_uuid]

\* The row of table t whose id is id (ids are unique within a table).
Row(t, id) == CHOOSE r \in t : r.id = id

\* sql_last_insert_id (): the id of the row the last INSERT created, given the
\* table's counter after that INSERT.
sql_last_insert_id(next) == next - 1

\* What a handler hands back: the database it leaves, its return code and the
\* cascade functions it called.
Result(db, ret, cascade) == [db |-> db, ret |-> ret, cascade |-> cascade]

\* sql_rollback (): the database is the one the transaction started from.
sql_rollback(before) == before

(***************************************************************************)
(* Collaborators of the ticket code (ACL, lookup, tags, permissions).      *)
(***************************************************************************)

\* ACL_USER_OWNS (): the row belongs to the user.
ACL_USER_OWNS(r, user) == r.owner = user

\* find_resource_with_permission ("ticket", uuid, &ticket, permission, 0): the
\* id of the active ticket with this uuid that the user owns or holds the
\* permission on, else 0.
find_resource_with_permission(db, user, uuid, permission) ==
  LET S == {r \in db.tickets :
              /\ r.uuid = uuid
              /\ \/ ACL_USER_OWNS(r, user)
                 \/ \E p \in db.permissions :
                      /\ p.name = permission
                      /\ p.subject = user
                      /\ p.resource = r.id
                      /\ p.resource_location = LOCATION_TABLE}
  IN IF S = {} THEN 0 ELSE (CHOOSE r \in S : TRUE).id

\* find_trash ("ticket", uuid, &ticket): the id of the trashcan ticket with this
\* uuid, else 0.
find_trash(db, uuid) ==
  LET S == {r \in db.tickets_trash : r.uuid = uuid}
  IN IF S = {} THEN 0 ELSE (CHOOSE r \in S : TRUE).id

\* resource_with_name_exists (name, "ticket", resource): whether an active
\* ticket of the user, other than resource, holds the name.
resource_with_name_exists(db, user, name, resource) ==
  \E r \in db.tickets :
     /\ r.name = name
     /\ r.id # resource
     /\ ACL_USER_OWNS(r, user)

\* tags_remove_resource ("ticket", resource, location).
tags_remove_resource(db, resource, location) ==
  [db EXCEPT !.tag_resources =
     {t \in @ : ~(t.resource = resource /\ t.resource_location = location)}]

\* The location references are moved away from when they are moved to `to`.
OtherLocation(to) ==
  IF to = LOCATION_TRASH THEN LOCATION_TABLE ELSE LOCATION_TRASH

\* tags_set_locations ("ticket", old, new, to).
tags_set_locations(db, old, new, to) ==
  [db EXCEPT !.tag_resources =
     {IF t.resource = old /\ t.resource_location = OtherLocation(to)
        THEN [t EXCEPT !.resource = new, !.resource_location = to]
        ELSE t : t \in @}]

\* permissions_set_locations ("ticket", old, new, to).
permissions_set_locations(db, old, new, to) ==
  [db EXCEPT !.permissions =
     {IF p.resource = old /\ p.resource_location = OtherLocation(to)
        THEN [p EXCEPT !.resource = new, !.resource_location = to]
        ELSE p : p \in @}]

\* permissions_set_orphans ("ticket", resource, location): the references to
\* the resource are discarded.
permissions_set_orphans(db, resource, location) ==
  [db EXCEPT !.permissions =
     {p \in @ : ~(p.resource = resource /\ p.resource_location = location)}]

(***************************************************************************)
(* delete_ticket                                                           *)
(***************************************************************************)

\* Faulty variant of insert_tickets_trash: the comment column is missing from the
\* column lists, so the trashcan row gets the column's default.
insert_tickets_trash_without_comment(db, ticket) ==
  [db EXCEPT
     !.tickets_trash =
        @ \cup {[r EXCEPT !.id = db.next_trash_ticket, !.comment = ""] :
                  r \in {x \in db.tickets : x.id = ticket}},
     !.next_trash_ticket = @ + 1]

\* INSERT INTO tickets_trash (...) SELECT ... FROM tickets WHERE id = ticket:
\* every column but id is selected, the store assigns the id.
insert_tickets_trash(db, ticket) ==
  [db EXCEPT
     !.tickets_trash =
        @ \cup {[r EXCEPT !.id = db.next_trash_ticket] :
                  r \in {x \in db.tickets : x.id = ticket}},
     !.next_trash_ticket = @ + 1]

\* Faulty variant of sql_delete_tickets: the DELETE matches no row.
sql_delete_tickets_none(db, ticket) == db

\* DELETE FROM tickets WHERE id = ticket.
sql_delete_tickets(db, ticket) ==
  [db EXCEPT !.tickets = {r \in @ : r.id # ticket}]

\* Faulty variant of sql_delete_tickets_trash: the DELETE matches no row.
sql_delete_tickets_trash_none(db, ticket) == db

\* DELETE FROM tickets_trash WHERE id = ticket.
sql_delete_tickets_trash(db, ticket) ==
  [db EXCEPT !.tickets_trash = {r \in @ : r.id # ticket}]

\* Faulty variant of delete_trash_ticket: the test of ultimate is missing, the row is
\* erased also when ultimate is 0.
delete_trash_ticket_always(db, ticket, ultimate) ==
  LET d1 == tags_remove_resource(db, ticket, LOCATION_TRASH)
  IN Result(sql_delete_tickets_trash(d1, ticket), 0, {"tags_remove_resource"})

\* delete_ticket once the ticket was found in the trashcan.
delete_trash_ticket(db, ticket, ultimate) ==
  IF ultimate = 0
    THEN \* It's already in the trashcan.
         Result(db, 0, {})
    ELSE LET d1 == tags_remove_resource(db, ticket, LOCATION_TRASH)
         IN Result(sql_delete_tickets_trash(d1, ticket), 0,
                   {"tags_remove_resource"})

\* Faulty variant of delete_active_ticket: the test of ultimate is missing, the ticket
\* goes to the trashcan also when ultimate is 1.
delete_active_ticket_to_trash(db, ticket, ultimate) ==
  LET d1 == insert_tickets_trash(db, ticket)
      trash_ticket == sql_last_insert_id(d1.next_trash_ticket)
      d2 == permissions_set_locations(d1, ticket, trash_ticket, LOCATION_TRASH)
      d3 == tags_set_locations(d2, ticket, trash_ticket, LOCATION_TRASH)
  IN Result(sql_delete_tickets(d3, ticket), 0,
            {"permissions_set_locations", "tags_set_locations"})

\* delete_ticket once the ticket was found in tickets.
delete_active_ticket(db, ticket, ultimate) ==
  IF ultimate = 0
    THEN LET d1 == insert_tickets_trash(db, ticket)
             trash_ticket == sql_last_insert_id(d1.next_trash_ticket)
             d2 == permissions_set_locations(d1, ticket, trash_ticket,
                                             LOCATION_TRASH)
             d3 == tags_set_locations(d2, ticket, trash_ticket,
                                      LOCATION_TRASH)
         IN Result(sql_delete_tickets(d3, ticket), 0,
                   {"permissions_set_locations", "tags_set_locations"})
    ELSE LET d1 == permissions_set_orphans(db, ticket, LOCATION_TABLE)
             d2 == tags_remove_resource(d1, ticket, LOCATION_TABLE)
         IN Result(sql_delete_tickets(d2, ticket), 0,
                   {"permissions_set_orphans", "tags_remove_resource"})

\* delete_ticket (ticket_id, ultimate).  may is the answer of
\* acl_user_may ("delete_ticket"); lookup_error names the lookup that fails, if
\* any.
delete_ticket(db, user, ticket_id, ultimate, may, lookup_error) ==
  IF ~may
    THEN Result(sql_rollback(db), 99, {})
    ELSE IF lookup_error = "find"
    THEN Result(sql_rollback(db), -1, {})
    ELSE LET ticket == find_resource_with_permission(db, user, ticket_id,
                                                     "delete_ticket")
         IN IF ticket = 0
              THEN IF lookup_error = "trash"
                     THEN Result(sql_rollback(db), -1, {})
                     ELSE LET trash_ticket == find_trash(db, ticket_id)
                          IN IF trash_ticket = 0
                               THEN Result(sql_rollback(db), 2, {})
                               ELSE delete_trash_ticket(db, trash_ticket,
                                                        ultimate)
              ELSE delete_active_ticket(db, ticket, ultimate)

(***************************************************************************)
(* restore_ticket                                                          *)
(***************************************************************************)

\* Faulty variant of restore_name_count: the count is taken over tickets_trash, where
\* no row of the user's active tickets is.
restore_name_count_in_trash(db, user, ticket) ==
  Cardinality({r \in db.tickets_trash :
                 /\ r.id # ticket
                 /\ \E t \in db.tickets_trash : t.id = ticket /\ t.name = r.name
                 /\ ACL_USER_OWNS(r, user)})

\* SELECT count(*) FROM tickets WHERE name = (SELECT name FROM tickets_trash
\* WHERE id = ticket) AND ACL_USER_OWNS ().
restore_name_count(db, user, ticket) ==
  Cardinality({r \in db.tickets :
                 /\ \E t \in db.tickets_trash : t.id = ticket /\ t.name = r.name
                 /\ ACL_USER_OWNS(r, user)})

\* INSERT INTO tickets (...) SELECT ... FROM tickets_trash WHERE id = ticket.
insert_tickets_from_trash(db, ticket) ==
  [db EXCEPT
     !.tickets =
        @ \cup {[r EXCEPT !.id = db.next_ticket] :
                  r \in {x \in db.tickets_trash : x.id = ticket}},
     !.next_ticket = @ + 1]

\* Faulty variant of restore_ticket: the references are moved to the id the
\* ticket had in the trashcan, not to the id of the row just inserted.
restore_ticket_old_id(db, user, ticket_id, lookup_error) ==
  IF lookup_error = "trash"
    THEN Result(sql_rollback(db), -1, {})
    ELSE LET ticket == find_trash(db, ticket_id)
         IN IF ticket # 0
              THEN IF restore_name_count(db, user, ticket) # 0
                     THEN Result(sql_rollback(db), 3, {})
                     ELSE LET d1 == insert_tickets_from_trash(db, ticket)
                              d2 == permissions_set_locations(
                                      d1, ticket, ticket, LOCATION_TABLE)
                              d3 == tags_set_locations(
                                      d2, ticket, ticket, LOCATION_TABLE)
                          IN Result(sql_delete_tickets_trash(d3, ticket), 0,
                                    {"permissions_set_locations",
                                     "tags_set_locations"})
              ELSE Result(db, 2, {})

\* restore_ticket (ticket_id).
restore_ticket(db, user, ticket_id, lookup_error) ==
  IF lookup_error = "trash"
    THEN Result(sql_rollback(db), -1, {})
    ELSE LET ticket == find_trash(db, ticket_id)
         IN IF ticket # 0
              THEN IF restore_name_count(db, user, ticket) # 0
                     THEN Result(sql_rollback(db), 3, {})
                     ELSE LET d1 == insert_tickets_from_trash(db, ticket)
                              d2 == permissions_set_locations(
                                      d1, ticket,
                                      sql_last_insert_id(d1.next_ticket),
                                      LOCATION_TABLE)
                              d3 == tags_set_locations(
                                      d2, ticket,
                                      sql_last_insert_id(d2.next_ticket),
                                      LOCATION_TABLE)
                          IN Result(sql_delete_tickets_trash(d3, ticket), 0,
                                    {"permissions_set_locations",
                                     "tags_set_locations"})
              ELSE Result(db, 2, {})

(***************************************************************************)
(* create_ticket and copy_ticket                                           *)
(***************************************************************************)

\* INSERT INTO tickets (uuid, name, owner, comment, creation_time,
\* modification_time) VALUES (make_uuid (), name, user, comment, m_now (),
\* m_now ()): the other columns are left NULL, the store assigns the id.
insert_tickets(db, user, time, name, comment) ==
  [db EXCEPT
     !.tickets = @ \cup {[id |-> db.next_ticket,
                          uuid |-> db.next_uuid,
                          owner |-> user,
                          name |-> name,
                          comment |-> comment,
                          payload |-> NULL,
                          creation_time |-> time,
                          modification_time |-> time]},
     !.next_ticket = @ + 1,
     !.next_uuid = @ + 1]

\* Faulty variant of create_ticket_allowed: the resource_with_name_exists check is
\* missing.
create_ticket_allowed_any_name(db, user, time, name, comment) ==
  Result(insert_tickets(db, user, time, name,
                        IF comment = NULL THEN "" ELSE comment),
         0, {})

\* create_ticket once acl_user_may ("create_ticket") has allowed it.
create_ticket_allowed(db, user, time, name, comment) ==
  IF resource_with_name_exists(db, user, name, 0)
    THEN Result(sql_rollback(db), 1, {})
    ELSE Result(insert_tickets(db, user, time, name,
                               IF comment = NULL THEN "" ELSE comment),
                0, {})

\* Faulty variant of create_ticket: the acl_user_may check is missing.
create_ticket_unchecked(db, user, time, name, comment, may) ==
  create_ticket_allowed(db, user, time, name, comment)

\* create_ticket (name, comment, &ticket).
create_ticket(db, user, time, name, comment, may) ==
  IF ~may
    THEN Result(sql_rollback(db), 99, {})
    ELSE create_ticket_allowed(db, user, time, name, comment)

\* copy_resource ("ticket", name, comment, resource_id, columns, 1, ...): a new
\* row with a fresh id and uuid, owned by the user, the listed columns taken
\* from the source, name and comment from the arguments or else the source.
copy_resource(db, user, time, name, comment, resource_id, columns, may) ==
  IF ~may
    THEN Result(sql_rollback(db), 99, {})
    ELSE LET resource == find_resource_with_permission(db, user, resource_id,
                                                       "get_tickets")
         IN IF resource = 0
              THEN Result(sql_rollback(db), 2, {})
              ELSE LET src == Row(db.tickets, resource)
                       new_name == IF name = NULL THEN src.name ELSE name
                       new_comment ==
                         IF comment = NULL THEN src.comment ELSE comment
                       new == [id |-> db.next_ticket,
                               uuid |-> IF "uuid" \in columns
                                          THEN src.uuid ELSE db.next_uuid,
                               owner |-> user,
                               name |-> new_name,
                               comment |-> new_comment,
                               payload |-> IF "payload" \in columns
                                             THEN src.payload ELSE NULL,
                               creation_time |-> time,
                               modification_time |-> time]
                   IN IF resource_with_name_exists(db, user, new_name, 0)
                        THEN Result(sql_rollback(db), 1, {})
                        ELSE Result([db EXCEPT
                                       !.tickets = @ \cup {new},
                                       !.next_ticket = @ + 1,
                                       !.next_uuid = @ + 1],
                                    0, {})

\* Faulty variant of copy_ticket_columns: uuid is among the columns to copy.
copy_ticket_columns_with_uuid == {"payload", "uuid"}

\* The columns copy_ticket hands to copy_resource: task, report, severity,
\* host, location, solution_type, assigned_to, status and the open, solved,
\* confirmed, closed and orphaned columns, which the model keeps as payload.
copy_ticket_columns == {"payload"}

\* copy_ticket (name, comment, ticket_id, &new_ticket).
copy_ticket(db, user, time, name, comment, ticket_id, may) ==
  copy_resource(db, user, time, name, comment, ticket_id,
                copy_ticket_columns, may)

(***************************************************************************)
(* modify_ticket                                                           *)
(***************************************************************************)

\* Faulty variant of update_name: the UPDATE sets creation_time as well.
update_name_and_creation_time(db, time, ticket, name) ==
  [db EXCEPT !.tickets =
     {IF r.id = ticket
        THEN [r EXCEPT !.name = name, !.modification_time = time,
                       !.creation_time = time]
        ELSE r : r \in @}]

\* UPDATE tickets SET name = name, modification_time = m_now () WHERE id = ticket.
update_name(db, time, ticket, name) ==
  [db EXCEPT !.tickets =
     {IF r.id = ticket
        THEN [r EXCEPT !.name = name, !.modification_time = time]
        ELSE r : r \in @}]

\* Faulty variant of update_comment: the UPDATE leaves modification_time.
update_comment_only(db, time, ticket, comment) ==
  [db EXCEPT !.tickets =
     {IF r.id = ticket THEN [r EXCEPT !.comment = comment] ELSE r : r \in @}]

\* UPDATE tickets SET comment = comment, modification_time = m_now () WHERE
\* id = ticket.
update_comment(db, time, ticket, comment) ==
  [db EXCEPT !.tickets =
     {IF r.id = ticket
        THEN [r EXCEPT !.comment = comment, !.modification_time = time]
        ELSE r : r \in @}]

\* Faulty variant of modify_found_ticket: the comment is updated before the name is
\* checked, and the early returns leave it updated.
modify_found_ticket_comment_first(db, user, time, ticket, name, comment) ==
  LET d0 == IF comment # NULL
              THEN update_comment(db, time, ticket, comment) ELSE db
  IN IF name # NULL /\ name = ""
       THEN Result(d0, 11, {})
       ELSE IF name # NULL /\ resource_with_name_exists(db, user, name, ticket)
       THEN Result(d0, 1, {})
       ELSE Result(IF name # NULL
                     THEN update_name(d0, time, ticket, name) ELSE d0,
                   0, {})

\* modify_ticket once the ticket was found.
modify_found_ticket(db, user, time, ticket, name, comment) ==
  IF name # NULL /\ name = ""
    THEN Result(sql_rollback(db), 11, {})
    ELSE IF name # NULL /\ resource_with_name_exists(db, user, name, ticket)
    THEN Result(sql_rollback(db), 1, {})
    ELSE LET d1 == IF name # NULL
                     THEN update_name(db, time, ticket, name) ELSE db
             d2 == IF comment # NULL
                     THEN update_comment(d1, time, ticket, comment) ELSE d1
         IN Result(d2, 0, {})

\* Faulty variant of modify_ticket: a ticket that exists but that the user may
\* not modify is answered with 99, a uuid without a ticket with 9.
modify_ticket_denying(db, user, time, ticket_id, name, comment, may, lookup_error) ==
  IF ~may
    THEN Result(sql_rollback(db), 99, {})
    ELSE IF lookup_error = "find"
    THEN Result(sql_rollback(db), -1, {})
    ELSE LET ticket == find_resource_with_permission(db, user, ticket_id,
                                                     "modify_ticket")
         IN IF ticket = 0
              THEN IF \E r \in db.tickets : r.uuid = ticket_id
                     THEN Result(sql_rollback(db), 99, {})
                     ELSE Result(sql_rollback(db), 9, {})
              ELSE modify_found_ticket(db, user, time, ticket, name, comment)

\* modify_ticket (ticket_id, name, comment).
modify_ticket(db, user, time, ticket_id, name, comment, may, lookup_error) ==
  IF ~may
    THEN Result(sql_rollback(db), 99, {})
    ELSE IF lookup_error = "find"
    THEN Result(sql_rollback(db), -1, {})
    ELSE LET ticket == find_resource_with_permission(db, user, ticket_id,
                                                     "modify_ticket")
         IN IF ticket = 0
              THEN Result(sql_rollback(db), 9, {})
              ELSE modify_found_ticket(db, user, time, ticket, name, comment)

(***************************************************************************)
(* The state machine.                                                      *)
(***************************************************************************)

\* The table that holds the ticket with this uuid.
Found(ticket_id) ==
  IF \E r \in tickets : r.uuid = ticket_id THEN LOCATION_TABLE
  ELSE IF \E r \in tickets_trash : r.uuid = ticket_id THEN LOCATION_TRASH
  ELSE "none"

\* The record of a call that returned 0: the operation, the uuid it was given,
\* where that ticket was and whether ultimate was set.
Call(op, ticket_id, ultimate) ==
  [op |-> op, ticket_id |-> ticket_id, found |-> Found(ticket_id),
   ultimate |-> ultimate]

\* The record after a step that is no call of the ticket code.
NoCall ==
  [op |-> "none", ticket_id |-> 0, found |-> "none", ultimate |-> 0]

\* The rows remembered for the tickets in the trashcan: the tickets row a soft
\* delete has just moved, kept while the ticket stays in the trashcan and
\* through the step that restores it.
Snapshot(db, restored) ==
  [u \in Uuids |->
     LET moved == {x \in tickets :
                     /\ x.uuid = u
                     /\ x \notin db.tickets
                     /\ \E t \in db.tickets_trash : t.uuid = u}
     IN IF moved # {} THEN moved
        ELSE IF u = restored \/ \E t \in db.tickets_trash : t.uuid = u
        THEN trashed_from[u]
        ELSE {}]

\* The database after the call is the one the handler left.
Store(db) ==
  /\ db.next_ticket <= MaxTicket + 1
  /\ db.next_trash_ticket <= MaxTrashTicket + 1
  /\ tickets' = db.tickets
  /\ tickets_trash' = db.tickets_trash
  /\ tag_resources' = db.tag_resources
  /\ permissions' = db.permissions
  /\ next_ticket' = db.next_ticket
  /\ next_trash_ticket' = db.next_trash_ticket
  /\ next_uuid' = db.next_uuid

\* A call that returns 0 commits the database the handler left.  A call that
\* returns another code has rolled back (or changed nothing): the state is the
\* one before it, a stuttering step.
Commit(r) ==
  /\ r.ret = 0
  /\ Store(r.db)

\* The callers that can be in a call at the same time.
Sessions == {1, 2}

\* A caller that is in no call.
Idle ==
  [pc |-> "idle", op |-> "none", ticket_id |-> 0, name |-> NULL,
   ultimate |-> 0, waited |-> FALSE, ret |-> 0, target |-> 0, work |-> {}]

Init ==
  /\ tickets = {}
  /\ tickets_trash = {}
  /\ tag_resources = {}
  /\ permissions = {}
  /\ next_ticket = 1
  /\ next_trash_ticket = 1
  /\ next_uuid = 1
  /\ now = 0
  /\ current_credentials \in Users
  /\ last = NoCall
  /\ trashed_from = [u \in Uuids |-> {}]
  /\ destroyed = {}
  /\ session = [s \in Sessions |-> Idle]
  /\ lock = 0

CreateTicket ==
  \E name \in Names, comment \in Comments \cup {NULL}, may \in BOOLEAN :
    LET r == create_ticket(DB, current_credentials, now, name, comment, may)
    IN /\ Commit(r)
       /\ last' = Call("create_ticket", 0, 0)
       /\ trashed_from' = Snapshot(r.db, 0)
       /\ UNCHANGED <<session, lock, now, current_credentials, destroyed>>

CopyTicket ==
  \E ticket_id \in Uuids, name \in Names \cup {NULL},
     comment \in Comments \cup {NULL}, may \in BOOLEAN :
    LET r == copy_ticket(DB, current_credentials, now, name, comment,
                         ticket_id, may)
    IN /\ Commit(r)
       /\ last' = Call("copy_ticket", ticket_id, 0)
       /\ trashed_from' = Snapshot(r.db, 0)
       /\ UNCHANGED <<session, lock, now, current_credentials, destroyed>>

ModifyTicket ==
  \E ticket_id \in Uuids, name \in Names \cup {"", NULL},
     comment \in Comments \cup {NULL}, may \in BOOLEAN,
     lookup_error \in {"none", "find"} :
    LET r == modify_ticket(DB, current_credentials, now, ticket_id, name,
                           comment, may, lookup_error)
    IN /\ Commit(r)
       /\ last' = Call("modify_ticket", ticket_id, 0)
       /\ trashed_from' = Snapshot(r.db, 0)
       /\ UNCHANGED <<session, lock, now, current_credentials, destroyed>>

DeleteTicket ==
  \E ticket_id \in Uuids, ultimate \in {0, 1}, may \in BOOLEAN,
     lookup_error \in {"none", "find", "trash"} :
    LET r == delete_ticket(DB, current_credentials, ticket_id, ultimate, may,
                           lookup_error)
    IN /\ Commit(r)
       /\ last' = Call("delete_ticket", ticket_id, ultimate)
       /\ trashed_from' = Snapshot(r.db, 0)
       /\ destroyed' =
            IF r.ret = 0 /\ ultimate = 1
              THEN destroyed \cup {ticket_id} ELSE destroyed
       /\ UNCHANGED <<session, lock, now, current_credentials>>

RestoreTicket ==
  \E ticket_id \in Uuids, lookup_error \in {"none", "trash"} :
    LET r == restore_ticket(DB, current_credentials, ticket_id, lookup_error)
    IN /\ Commit(r)
       /\ last' = Call("restore_ticket", ticket_id, 0)
       /\ trashed_from' = Snapshot(r.db, IF r.ret = 0 THEN ticket_id ELSE 0)
       /\ UNCHANGED <<session, lock, now, current_credentials, destroyed>>

\* A tag is attached to an active ticket.
AddTag ==
  \E tag \in 1..MaxTag, r \in tickets :
    /\ \A t \in tag_resources : t.tag # tag
    /\ tag_resources' = tag_resources \cup
         {[tag |-> tag, resource |-> r.id, resource_location |-> LOCATION_TABLE]}
    /\ last' = NoCall
    /\ trashed_from' = Snapshot(DB, 0)
    /\ UNCHANGED <<session, lock, tickets, tickets_trash, permissions, next_ticket,
                   next_trash_ticket, next_uuid, now, current_credentials,
                   destroyed>>

\* A permission on an active ticket is granted to a user other than its owner.
AddPermission ==
  \E name \in PermissionNames, subject \in Users, r \in tickets :
    /\ subject # r.owner
    /\ Cardinality(permissions) < MaxPermission
    /\ permissions' = permissions \cup
         {[name |-> name, subject |-> subject, resource |-> r.id,
           resource_location |-> LOCATION_TABLE]}
    /\ last' = NoCall
    /\ trashed_from' = Snapshot(DB, 0)
    /\ UNCHANGED <<session, lock, tickets, tickets_trash, tag_resources, next_ticket,
                   next_trash_ticket, next_uuid, now, current_credentials,
                   destroyed>>

\* Another user authenticates: current_credentials changes.
Authenticate ==
  \E user \in Users \ {current_credentials} :
    /\ current_credentials' = user
    /\ last' = NoCall
    /\ trashed_from' = Snapshot(DB, 0)
    /\ UNCHANGED <<session, lock, dbvars, now, destroyed>>

\* Time passes: m_now () grows.
Tick ==
  /\ now < MaxTime
  /\ now' = now + 1
  /\ last' = NoCall
  /\ trashed_from' = Snapshot(DB, 0)
  /\ UNCHANGED <<session, lock, dbvars, current_credentials, destroyed>>

Next ==
  \/ CreateTicket
  \/ CopyTicket
  \/ ModifyTicket
  \/ DeleteTicket
  \/ RestoreTicket
  \/ AddTag
  \/ AddPermission
  \/ Authenticate
  \/ Tick

Spec == Init /\ [][Next]_vars

\* One actor: nobody else authenticates.
NextOne ==
  \/ CreateTicket
  \/ CopyTicket
  \/ ModifyTicket
  \/ DeleteTicket
  \/ RestoreTicket
  \/ AddTag
  \/ AddPermission
  \/ Tick

SpecOne == Init /\ [][NextOne]_vars

(***************************************************************************)
(* Inputs of the calls, and views of the state, that the properties use.   *)
(***************************************************************************)
NameArgs == Names \cup {"", NULL}
CommentArgs == Comments \cup {NULL}
Ultimates == {0, 1}

\* The rows of a table that carry the uuid.
WithUuid(t, uuid) == {r \in t : r.uuid = uuid}

\* The fields of a ticket that a move between the tables has to keep.
Content(r) ==
  [uuid |-> r.uuid, owner |-> r.owner, name |-> r.name,
   comment |-> r.comment, payload |-> r.payload]

\* The references of a set of tag or permission rows to (location, id).
RefsTo(refs, location, id) ==
  {x \in refs : x.resource = id /\ x.resource_location = location}

(***************************************************************************)
(* C1. Mutual exclusion: no uuid has a row in both tickets and             *)
(* tickets_trash, and no uuid has more than one row in either table.       *)
(***************************************************************************)
C1_MutualExclusion ==
  /\ \A a \in tickets, t \in tickets_trash : a.uuid # t.uuid
  /\ \A a, b \in tickets : a.uuid = b.uuid => a = b
  /\ \A a, b \in tickets_trash : a.uuid = b.uuid => a = b

\* A soft delete has just moved a ticket while another ticket is active.
C1_Witness ==
  /\ last.op = "delete_ticket"
  /\ last.found = LOCATION_TABLE
  /\ last.ultimate = 0
  /\ WithUuid(tickets_trash, last.ticket_id) # {}
  /\ tickets # {}

(***************************************************************************)
(* C2. Round trip: after a soft delete and a restore that both succeed,    *)
(* the active ticket has the uuid, owner, name, comment and payload it had *)
(* before the delete.                                                      *)
(***************************************************************************)
C2_RoundTrip ==
  last.op = "restore_ticket" =>
    /\ trashed_from[last.ticket_id] # {}
    /\ \A before \in trashed_from[last.ticket_id] :
         \E r \in tickets :
           /\ r.uuid = last.ticket_id
           /\ Content(r) = Content(before)

\* A ticket that carries a comment has been restored, under a new id.
C2_Witness ==
  /\ last.op = "restore_ticket"
  /\ \E r \in tickets :
       /\ r.uuid = last.ticket_id
       /\ r.comment = "c"
       /\ \E before \in trashed_from[last.ticket_id] : r.id # before.id

\* No two active tickets of one owner share a name.
UniqueNames(t) ==
  \A a, b \in t : (a.owner = b.owner /\ a.name = b.name) => a = b

(***************************************************************************)
(* C3. Name uniqueness, one actor: create_ticket with a name that an       *)
(* active ticket of the actor holds returns 1 and inserts nothing; a name  *)
(* that only trashcan tickets hold does not block create_ticket; and no    *)
(* two active tickets of the actor share a name, in the state and after    *)
(* every create, modify, soft delete and restore that returns 0.           *)
(***************************************************************************)
C3_NameUniqueness ==
  /\ \A name \in Names, comment \in CommentArgs :
       LET r == create_ticket(DB, current_credentials, now, name, comment,
                              TRUE)
       IN IF \E a \in tickets :
               a.name = name /\ a.owner = current_credentials
            THEN r.ret = 1 /\ r.db = DB
            ELSE /\ r.ret = 0
                 /\ \E n \in r.db.tickets \ tickets : n.name = name
  /\ UniqueNames(tickets)
  /\ \A ticket_id \in Uuids :
       /\ \A name \in NameArgs, comment \in CommentArgs :
            UniqueNames(modify_ticket(DB, current_credentials, now, ticket_id,
                                      name, comment, TRUE, "none").db.tickets)
       /\ UniqueNames(delete_ticket(DB, current_credentials, ticket_id, 0,
                                    TRUE, "none").db.tickets)
       /\ UniqueNames(restore_ticket(DB, current_credentials, ticket_id,
                                     "none").db.tickets)

\* create_ticket has just succeeded with a name that a trashcan ticket holds,
\* and a further create_ticket with that name returns 1.
C3_Witness ==
  /\ last.op = "create_ticket"
  /\ \E a \in tickets, t \in tickets_trash :
       /\ a.id = sql_last_insert_id(next_ticket)
       /\ a.name = t.name
       /\ a.owner = t.owner
       /\ create_ticket(DB, current_credentials, now, a.name, NULL, TRUE).ret = 1

(***************************************************************************)
(* C4. Restore conflict: when the trashcan ticket has the name of an       *)
(* active ticket the current user owns, restore_ticket returns 3 and       *)
(* leaves tickets, tickets_trash and the tag and permission references as  *)
(* they were.                                                              *)
(***************************************************************************)
C4_RestoreConflict ==
  \A t \in tickets_trash :
    (\E a \in tickets : a.name = t.name /\ a.owner = current_credentials)
      => LET r == restore_ticket(DB, current_credentials, t.uuid, "none")
         IN r.ret = 3 /\ r.db = DB /\ r.cascade = {}

\* A trashcan ticket that a tag references has the name of an active ticket of
\* the current user, and restore_ticket returns 3 for it.
C4_Witness ==
  \E t \in tickets_trash, a \in tickets :
    /\ a.name = t.name
    /\ a.owner = current_credentials
    /\ RefsTo(tag_resources, LOCATION_TRASH, t.id) # {}
    /\ restore_ticket(DB, current_credentials, t.uuid, "none").ret = 3

(***************************************************************************)
(* C5. Idempotent soft delete: delete_ticket with ultimate 0 on a ticket   *)
(* that is in the trashcan returns 0 and leaves the tables and the tag and *)
(* permission references as they were; a second soft delete of any ticket  *)
(* leaves the state the first one left.                                    *)
(***************************************************************************)
C5_IdempotentSoftDelete ==
  \A ticket_id \in Uuids :
    LET r == delete_ticket(DB, current_credentials, ticket_id, 0, TRUE,
                           "none")
        again == delete_ticket(r.db, current_credentials, ticket_id, 0, TRUE,
                               "none")
    IN /\ WithUuid(tickets_trash, ticket_id) # {}
            => r.ret = 0 /\ r.db = DB /\ r.cascade = {}
       /\ r.ret = 0 => again.ret = 0 /\ again.db = r.db

\* delete_ticket with ultimate 0 has just returned 0 for a ticket that was in
\* the trashcan, with a tag and a permission referencing it.
C5_Witness ==
  /\ last.op = "delete_ticket"
  /\ last.found = LOCATION_TRASH
  /\ last.ultimate = 0
  /\ \E t \in WithUuid(tickets_trash, last.ticket_id) :
       /\ RefsTo(tag_resources, LOCATION_TRASH, t.id) # {}
       /\ RefsTo(permissions, LOCATION_TRASH, t.id) # {}

(***************************************************************************)
(* C6. Hard delete finality: delete_ticket with ultimate 1 on an active    *)
(* ticket leaves the uuid in neither table, so that a following            *)
(* delete_ticket and restore_ticket return 2, and the tag and permission   *)
(* references to (table, id) are dropped, none rewritten to the trashcan.  *)
(***************************************************************************)
C6_HardDeleteFinality ==
  \A ticket_id \in Uuids :
    LET ticket == find_resource_with_permission(DB, current_credentials,
                                                ticket_id, "delete_ticket")
        r == delete_ticket(DB, current_credentials, ticket_id, 1, TRUE, "none")
    IN ticket # 0 =>
         /\ r.ret = 0
         /\ WithUuid(r.db.tickets, ticket_id) = {}
         /\ WithUuid(r.db.tickets_trash, ticket_id) = {}
         /\ \A ultimate \in Ultimates :
              delete_ticket(r.db, current_credentials, ticket_id, ultimate,
                            TRUE, "none").ret = 2
         /\ restore_ticket(r.db, current_credentials, ticket_id, "none").ret = 2
         /\ r.db.tag_resources
              = tag_resources \ RefsTo(tag_resources, LOCATION_TABLE, ticket)
         /\ r.db.permissions
              = permissions \ RefsTo(permissions, LOCATION_TABLE, ticket)

\* An active ticket with a tag and a permission referencing it, for which
\* delete_ticket with ultimate 1 returns 0.
C6_Witness ==
  \E a \in tickets :
    /\ RefsTo(tag_resources, LOCATION_TABLE, a.id) # {}
    /\ RefsTo(permissions, LOCATION_TABLE, a.id) # {}
    /\ delete_ticket(DB, current_credentials, a.uuid, 1, TRUE, "none").ret = 0

(***************************************************************************)
(* C7. Atomicity under denial: when acl_user_may denies create_ticket,     *)
(* modify_ticket or delete_ticket, the call returns 99, makes no cascade   *)
(* call and leaves the whole database as it was.                           *)
(***************************************************************************)
C7_AtomicityUnderDenial ==
  /\ \A name \in Names, comment \in CommentArgs :
       create_ticket(DB, current_credentials, now, name, comment, FALSE)
         = Result(DB, 99, {})
  /\ \A ticket_id \in Uuids, name \in NameArgs, comment \in CommentArgs,
        lookup_error \in {"none", "find"} :
       modify_ticket(DB, current_credentials, now, ticket_id, name, comment,
                     FALSE, lookup_error)
         = Result(DB, 99, {})
  /\ \A ticket_id \in Uuids, ultimate \in Ultimates,
        lookup_error \in {"none", "find", "trash"} :
       delete_ticket(DB, current_credentials, ticket_id, ultimate, FALSE,
                     lookup_error)
         = Result(DB, 99, {})

\* An active ticket of the current user with a tag and a permission
\* referencing it: delete_ticket would remove it, and returns 99 when denied;
\* and a name is free, so that create_ticket would insert, and returns 99 when
\* denied.
C7_Witness ==
  /\ \E a \in tickets :
       /\ a.owner = current_credentials
       /\ RefsTo(tag_resources, LOCATION_TABLE, a.id) # {}
       /\ RefsTo(permissions, LOCATION_TABLE, a.id) # {}
       /\ delete_ticket(DB, current_credentials, a.uuid, 1, TRUE, "none").ret = 0
       /\ delete_ticket(DB, current_credentials, a.uuid, 1, FALSE, "none").ret
            = 99
  /\ \E name \in Names :
       /\ create_ticket(DB, current_credentials, now, name, NULL, TRUE).ret = 0
       /\ create_ticket(DB, current_credentials, now, name, NULL, FALSE).ret
            = 99

\* The table at a location.
TableAt(location) ==
  IF location = LOCATION_TABLE THEN tickets ELSE tickets_trash

(***************************************************************************)
(* C8. Referential integrity: every tag reference and every permission     *)
(* reference points at a row that exists at its location; after an         *)
(* ultimate delete of a trashcan ticket no reference points at its         *)
(* (trash, id).                                                            *)
(***************************************************************************)
C8_ReferentialIntegrity ==
  \A x \in tag_resources \cup permissions :
    \E r \in TableAt(x.resource_location) : r.id = x.resource

(***************************************************************************)
(* C9. Modify is all-or-nothing: when modify_ticket returns another code   *)
(* than 0, every row of tickets and tickets_trash is as it was; a call     *)
(* with an invalid name and a comment does not store the comment.          *)
(***************************************************************************)
C9_ModifyAllOrNothing ==
  \A ticket_id \in Uuids, name \in NameArgs, comment \in CommentArgs,
     may \in BOOLEAN, lookup_error \in {"none", "find"} :
    LET r == modify_ticket(DB, current_credentials, now, ticket_id, name,
                           comment, may, lookup_error)
    IN r.ret # 0 => r.db = DB

\* Two active tickets of the current user, created earlier and without the
\* comment "c": modify_ticket of one with the empty name and the comment
\* returns 11, with the other's name and the comment returns 1.
C9_Witness ==
  \E a, b \in tickets :
    /\ a # b
    /\ a.owner = current_credentials
    /\ b.owner = current_credentials
    /\ a.comment # "c"
    /\ a.modification_time < now
    /\ modify_ticket(DB, current_credentials, now, a.uuid, "", "c", TRUE,
                     "none").ret = 11
    /\ modify_ticket(DB, current_credentials, now, a.uuid, b.name, "c", TRUE,
                     "none").ret = 1

(***************************************************************************)
(* C10. Copy independence: the row copy_ticket inserts has an id and a     *)
(* uuid that no row has or had, belongs to the acting user and has no tag  *)
(* or permission reference, and copy_ticket changes no other row;          *)
(* modify_ticket changes no ticket but the one whose uuid it is given, and *)
(* delete_ticket removes or moves no ticket but that one.                  *)
(***************************************************************************)
C10_CopyIndependence ==
  /\ \A ticket_id \in Uuids, name \in Names \cup {NULL},
        comment \in CommentArgs :
       LET r == copy_ticket(DB, current_credentials, now, name, comment,
                            ticket_id, TRUE)
       IN r.ret = 0 =>
            /\ tickets \subseteq r.db.tickets
            /\ r.db.tickets_trash = tickets_trash
            /\ r.db.tag_resources = tag_resources
            /\ r.db.permissions = permissions
            /\ \E c \in r.db.tickets \ tickets :
                 /\ r.db.tickets = tickets \cup {c}
                 /\ \A x \in tickets \cup tickets_trash : x.uuid # c.uuid
                 /\ c.uuid \notin destroyed
                 /\ \A x \in tickets : x.id # c.id
                 /\ c.owner = current_credentials
                 /\ RefsTo(r.db.tag_resources, LOCATION_TABLE, c.id) = {}
                 /\ RefsTo(r.db.permissions, LOCATION_TABLE, c.id) = {}
  /\ \A ticket_id \in Uuids, x \in tickets :
       x.uuid # ticket_id =>
         /\ \A name \in NameArgs, comment \in CommentArgs :
              x \in modify_ticket(DB, current_credentials, now, ticket_id,
                                  name, comment, TRUE, "none").db.tickets
         /\ \A ultimate \in Ultimates :
              x \in delete_ticket(DB, current_credentials, ticket_id, ultimate,
                                  TRUE, "none").db.tickets

\* copy_ticket has just inserted a copy of an active ticket that a tag and a
\* permission reference.
C10_Witness ==
  /\ last.op = "copy_ticket"
  /\ \E src \in tickets, c \in tickets :
       /\ src.uuid = last.ticket_id
       /\ c.id = sql_last_insert_id(next_ticket)
       /\ c # src
       /\ RefsTo(tag_resources, LOCATION_TABLE, src.id) # {}
       /\ RefsTo(permissions, LOCATION_TABLE, src.id) # {}

(***************************************************************************)
(* C11. The return codes the comment of modify_ticket documents: 99 when   *)
(* the user may not modify tickets, else 2 when no ticket with the uuid is *)
(* found under the modify_ticket permission, else 3 when the name has      *)
(* length zero, else 1 when another active ticket holds the name, else 0.  *)
(***************************************************************************)
C11_DocumentedReturnCodes ==
  \A ticket_id \in Uuids, name \in NameArgs, comment \in CommentArgs,
     may \in BOOLEAN :
    LET r == modify_ticket(DB, current_credentials, now, ticket_id, name,
                           comment, may, "none")
        ticket == find_resource_with_permission(DB, current_credentials,
                                                ticket_id, "modify_ticket")
    IN r.ret = IF ~may THEN 99
               ELSE IF ticket = 0 THEN 2
               ELSE IF name # NULL /\ name = "" THEN 3
               ELSE IF name # NULL
                       /\ resource_with_name_exists(DB, current_credentials,
                                                    name, ticket)
               THEN 1
               ELSE 0

(***************************************************************************)
(* The statements a call sends to the database, in the order the code      *)
(* sends them: sql_begin_immediate, sql_commit and sql_rollback by their   *)
(* names, a query as "SELECT", a change as "INSERT", "UPDATE" or "DELETE". *)
(***************************************************************************)

\* delete_ticket: sql_begin_immediate, acl_user_may, then the lookups and the
\* branch taken.
delete_ticket_statements(db, user, ticket_id, ultimate, may, lookup_error) ==
  LET begin == <<"sql_begin_immediate", "SELECT">>
  IN IF ~may
       THEN begin \o <<"sql_rollback">>
       ELSE IF lookup_error = "find"
       THEN begin \o <<"SELECT", "sql_rollback">>
       ELSE LET ticket == find_resource_with_permission(db, user, ticket_id,
                                                        "delete_ticket")
            IN IF ticket = 0
                 THEN IF lookup_error = "trash"
                        THEN begin \o <<"SELECT", "SELECT", "sql_rollback">>
                        ELSE IF find_trash(db, ticket_id) = 0
                        THEN begin \o <<"SELECT", "SELECT", "sql_rollback">>
                        ELSE IF ultimate = 0
                        THEN begin \o <<"SELECT", "SELECT", "sql_commit">>
                        ELSE begin \o <<"SELECT", "SELECT", "DELETE", "DELETE",
                                        "sql_commit">>
                 ELSE IF ultimate = 0
                 THEN begin \o <<"SELECT", "INSERT", "UPDATE", "UPDATE",
                                 "DELETE", "sql_commit">>
                 ELSE begin \o <<"SELECT", "UPDATE", "DELETE", "DELETE",
                                 "sql_commit">>

\* restore_ticket: the caller has sent sql_begin_immediate; find_trash, the
\* count of the name, then the move.
restore_ticket_statements(db, user, ticket_id, lookup_error) ==
  IF lookup_error = "trash"
    THEN <<"SELECT", "sql_rollback">>
    ELSE LET ticket == find_trash(db, ticket_id)
         IN IF ticket # 0
              THEN IF restore_name_count(db, user, ticket) # 0
                     THEN <<"SELECT", "SELECT", "sql_rollback">>
                     ELSE <<"SELECT", "SELECT", "INSERT", "UPDATE", "UPDATE",
                            "DELETE", "sql_commit">>
              ELSE <<"SELECT">>

\* Faulty variant of create_ticket_statements: the return of 1 leaves the
\* transaction open.
create_ticket_statements_open(db, user, name, may) ==
  LET begin == <<"sql_begin_immediate", "SELECT">>
  IN IF ~may
       THEN begin \o <<"sql_rollback">>
       ELSE IF resource_with_name_exists(db, user, name, 0)
       THEN begin \o <<"SELECT">>
       ELSE begin \o <<"SELECT", "INSERT", "sql_commit">>

\* create_ticket: sql_begin_immediate, acl_user_may,
\* resource_with_name_exists, the INSERT.
create_ticket_statements(db, user, name, may) ==
  LET begin == <<"sql_begin_immediate", "SELECT">>
  IN IF ~may
       THEN begin \o <<"sql_rollback">>
       ELSE IF resource_with_name_exists(db, user, name, 0)
       THEN begin \o <<"SELECT", "sql_rollback">>
       ELSE begin \o <<"SELECT", "INSERT", "sql_commit">>

\* Faulty variant of modify_ticket_statements: the transaction is opened with
\* sql_begin, which does not take the write lock.
modify_ticket_statements_deferred(db, user, ticket_id, name, comment, may, lookup_error) ==
  LET begin == <<"sql_begin", "SELECT">>
  IN IF ~may
       THEN begin \o <<"sql_rollback">>
       ELSE IF lookup_error = "find"
       THEN begin \o <<"SELECT", "sql_rollback">>
       ELSE LET ticket == find_resource_with_permission(db, user, ticket_id,
                                                        "modify_ticket")
            IN IF ticket = 0
                 THEN begin \o <<"SELECT", "sql_rollback">>
                 ELSE IF name # NULL /\ name = ""
                 THEN begin \o <<"SELECT", "sql_rollback">>
                 ELSE IF name # NULL
                         /\ resource_with_name_exists(db, user, name, ticket)
                 THEN begin \o <<"SELECT", "SELECT", "sql_rollback">>
                 ELSE begin \o <<"SELECT">>
                      \o (IF name # NULL THEN <<"SELECT", "UPDATE">> ELSE <<>>)
                      \o (IF comment # NULL THEN <<"UPDATE">> ELSE <<>>)
                      \o <<"sql_commit">>

\* modify_ticket: sql_begin_immediate, acl_user_may, the lookup, the check
\* of the name, one UPDATE for the name and one for the comment.
modify_ticket_statements(db, user, ticket_id, name, comment, may, lookup_error) ==
  LET begin == <<"sql_begin_immediate", "SELECT">>
  IN IF ~may
       THEN begin \o <<"sql_rollback">>
       ELSE IF lookup_error = "find"
       THEN begin \o <<"SELECT", "sql_rollback">>
       ELSE LET ticket == find_resource_with_permission(db, user, ticket_id,
                                                        "modify_ticket")
            IN IF ticket = 0
                 THEN begin \o <<"SELECT", "sql_rollback">>
                 ELSE IF name # NULL /\ name = ""
                 THEN begin \o <<"SELECT", "sql_rollback">>
                 ELSE IF name # NULL
                         /\ resource_with_name_exists(db, user, name, ticket)
                 THEN begin \o <<"SELECT", "SELECT", "sql_rollback">>
                 ELSE begin \o <<"SELECT">>
                      \o (IF name # NULL THEN <<"SELECT", "UPDATE">> ELSE <<>>)
                      \o (IF comment # NULL THEN <<"UPDATE">> ELSE <<>>)
                      \o <<"sql_commit">>

\* The statements that end a transaction.
TransactionEnds == {"sql_commit", "sql_rollback"}

\* The positions of a sequence of statements that hold one of the statements.
Positions(statements, which) ==
  {i \in 1..Len(statements) : statements[i] \in which}

(***************************************************************************)
(* C12. restore_ticket ends the transaction of its caller before it        *)
(* returns: whatever it returns (0, 3, 2 or -1), it has sent exactly one   *)
(* sql_commit or sql_rollback, as its last statement.                      *)
(***************************************************************************)
C12_RestoreEndsTransaction ==
  \A ticket_id \in Uuids, lookup_error \in {"none", "trash"} :
    LET s == restore_ticket_statements(DB, current_credentials, ticket_id,
                                       lookup_error)
    IN Positions(s, TransactionEnds) = {Len(s)}

\* The uuids that no ticket carries, in tickets or in tickets_trash.  make_uuid
\* never gives 0.
AbsentUuids ==
  {u \in 0..MaxTicket :
     WithUuid(tickets, u) = {} /\ WithUuid(tickets_trash, u) = {}}

\* The database without an active ticket and without the references to it.
WithoutTicket(db, x) ==
  [db EXCEPT
     !.tickets = @ \ {x},
     !.tag_resources = @ \ RefsTo(@, LOCATION_TABLE, x.id),
     !.permissions = @ \ RefsTo(@, LOCATION_TABLE, x.id)]

(***************************************************************************)
(* C13. Not found hides existence: for a user who may modify and delete    *)
(* tickets, modify_ticket and delete_ticket on the uuid of an active       *)
(* ticket that the lookup does not resolve for the user return what the    *)
(* same call returns on a uuid that no ticket carries, and what it returns *)
(* on the database without that ticket; the database is left as it was.    *)
(***************************************************************************)
C13_NotFoundConfidentiality ==
  \A x \in tickets :
    /\ find_resource_with_permission(DB, current_credentials, x.uuid,
                                     "modify_ticket") = 0
         => \A name \in NameArgs, comment \in CommentArgs :
              LET hidden == modify_ticket(DB, current_credentials, now, x.uuid,
                                          name, comment, TRUE, "none")
                  gone == modify_ticket(WithoutTicket(DB, x),
                                        current_credentials, now, x.uuid,
                                        name, comment, TRUE, "none")
              IN /\ hidden.db = DB
                 /\ gone.db = WithoutTicket(DB, x)
                 /\ hidden.ret = gone.ret
                 /\ \A u \in AbsentUuids :
                      hidden = modify_ticket(DB, current_credentials, now, u,
                                             name, comment, TRUE, "none")
    /\ find_resource_with_permission(DB, current_credentials, x.uuid,
                                     "delete_ticket") = 0
         => \A ultimate \in Ultimates :
              LET hidden == delete_ticket(DB, current_credentials, x.uuid,
                                          ultimate, TRUE, "none")
                  gone == delete_ticket(WithoutTicket(DB, x),
                                        current_credentials, x.uuid, ultimate,
                                        TRUE, "none")
              IN /\ hidden.db = DB
                 /\ gone.db = WithoutTicket(DB, x)
                 /\ hidden.ret = gone.ret
                 /\ \A u \in AbsentUuids :
                      hidden = delete_ticket(DB, current_credentials, u,
                                             ultimate, TRUE, "none")

\* An active ticket of another user, on which the current user holds the
\* permission to delete but not the permission to modify: modify_ticket
\* returns 9 for it as for the uuid 0.  A second active ticket of another user
\* on which the current user holds no permission: delete_ticket returns 2.
C13_Witness ==
  \E x, y \in tickets :
    /\ x.owner # current_credentials
    /\ y.owner # current_credentials
    /\ find_resource_with_permission(DB, current_credentials, x.uuid,
                                     "delete_ticket") # 0
    /\ modify_ticket(DB, current_credentials, now, x.uuid, "a", NULL, TRUE,
                     "none").ret = 9
    /\ modify_ticket(DB, current_credentials, now, 0, "a", NULL, TRUE,
                     "none").ret = 9
    /\ delete_ticket(DB, current_credentials, y.uuid, 1, TRUE, "none").ret = 2

\* The statements of a call that returned ret are one transaction: they start
\* with the only sql_begin_immediate and end with the only sql_commit or
\* sql_rollback, which is sql_commit exactly when the call returned 0.
Balanced(statements, ret) ==
  /\ Positions(statements, {"sql_begin_immediate"}) = {1}
  /\ Positions(statements, TransactionEnds) = {Len(statements)}
  /\ (statements[Len(statements)] = "sql_commit") <=> (ret = 0)

(***************************************************************************)
(* C14. Transaction balance: every call of create_ticket, modify_ticket    *)
(* and delete_ticket sends sql_begin_immediate as its first statement and  *)
(* exactly one sql_commit or sql_rollback as its last, sql_commit exactly  *)
(* when it returns 0; no query or change is sent outside the transaction.  *)
(***************************************************************************)
C14_TransactionBalance ==
  /\ \A name \in Names, comment \in CommentArgs, may \in BOOLEAN :
       Balanced(create_ticket_statements(DB, current_credentials, name, may),
                create_ticket(DB, current_credentials, now, name, comment,
                              may).ret)
  /\ \A ticket_id \in Uuids, name \in NameArgs, comment \in CommentArgs,
        may \in BOOLEAN, lookup_error \in {"none", "find"} :
       Balanced(modify_ticket_statements(DB, current_credentials, ticket_id,
                                         name, comment, may, lookup_error),
                modify_ticket(DB, current_credentials, now, ticket_id, name,
                              comment, may, lookup_error).ret)
  /\ \A ticket_id \in Uuids, ultimate \in Ultimates, may \in BOOLEAN,
        lookup_error \in {"none", "find", "trash"} :
       Balanced(delete_ticket_statements(DB, current_credentials, ticket_id,
                                         ultimate, may, lookup_error),
                delete_ticket(DB, current_credentials, ticket_id, ultimate,
                              may, lookup_error).ret)

\* A ticket in the trashcan and an active ticket of the current user: the soft
\* delete of the first commits without a change, create_ticket with the name
\* of the second rolls back, modify_ticket of the second commits two UPDATEs.
C14_Witness ==
  \E t \in tickets_trash, a \in tickets :
    /\ a.owner = current_credentials
    /\ delete_ticket_statements(DB, current_credentials, t.uuid, 0, TRUE,
                                "none")
         = <<"sql_begin_immediate", "SELECT", "SELECT", "SELECT", "sql_commit">>
    /\ create_ticket(DB, current_credentials, now, a.name, NULL, TRUE).ret = 1
    /\ create_ticket_statements(DB, current_credentials, a.name, TRUE)
         = <<"sql_begin_immediate", "SELECT", "SELECT", "sql_rollback">>
    /\ \E name \in Names :
         /\ modify_ticket(DB, current_credentials, now, a.uuid, name, "c",
                          TRUE, "none").ret = 0
         /\ Len(modify_ticket_statements(DB, current_credentials, a.uuid, name,
                                         "c", TRUE, "none")) = 7

(***************************************************************************)
(* Two callers at once.  A caller issues a call, the call opens its        *)
(* transaction and sends its statements, and the call ends the transaction *)
(* and returns.  sql_begin_immediate waits until no other transaction      *)
(* holds the write lock of the database and takes it; sql_commit and       *)
(* sql_rollback release it.  The changes of a transaction are in the       *)
(* database at its sql_commit.                                             *)
(***************************************************************************)

\* The caller of restore_ticket opens the transaction, and ends it when
\* restore_ticket has not.
manage_restore_statements(db, user, ticket_id) ==
  LET s == restore_ticket_statements(db, user, ticket_id, "none")
  IN <<"sql_begin_immediate">> \o s
     \o (IF Positions(s, TransactionEnds) = {}
           THEN <<"sql_rollback">> ELSE <<>>)

\* The calls that give an active ticket a name.
NameCalls ==
  {[op |-> "create_ticket", ticket_id |-> 0, name |-> n, ultimate |-> 0] :
     n \in Names}
  \cup {[op |-> "modify_ticket", ticket_id |-> u, name |-> n, ultimate |-> 0] :
          u \in Uuids, n \in Names}

\* The calls that move or erase a ticket.
MoveCalls ==
  {[op |-> "delete_ticket", ticket_id |-> u, name |-> NULL, ultimate |-> x] :
     u \in Uuids, x \in Ultimates}
  \cup {[op |-> "restore_ticket", ticket_id |-> u, name |-> NULL,
         ultimate |-> 0] : u \in Uuids}

\* What the call does on the database it sees, for a user who may do it.
Run(call, db) ==
  CASE call.op = "create_ticket" ->
         create_ticket(db, current_credentials, now, call.name, NULL, TRUE)
    [] call.op = "modify_ticket" ->
         modify_ticket(db, current_credentials, now, call.ticket_id, call.name,
                       NULL, TRUE, "none")
    [] call.op = "delete_ticket" ->
         delete_ticket(db, current_credentials, call.ticket_id, call.ultimate,
                       TRUE, "none")
    [] call.op = "restore_ticket" ->
         restore_ticket(db, current_credentials, call.ticket_id, "none")

\* The statements the call sends.
Statements(call, db) ==
  CASE call.op = "create_ticket" ->
         create_ticket_statements(db, current_credentials, call.name, TRUE)
    [] call.op = "modify_ticket" ->
         modify_ticket_statements(db, current_credentials, call.ticket_id,
                                  call.name, NULL, TRUE, "none")
    [] call.op = "delete_ticket" ->
         delete_ticket_statements(db, current_credentials, call.ticket_id,
                                  call.ultimate, TRUE, "none")
    [] call.op = "restore_ticket" ->
         manage_restore_statements(db, current_credentials, call.ticket_id)

\* The transaction of these statements holds the write lock.
Locks(statements) == Head(statements) = "sql_begin_immediate"

\* The uuid of the ticket a call gives its name to: the one create_ticket
\* inserts, the one modify_ticket is given.
Target(call, db) ==
  IF call.op = "create_ticket" THEN db.next_uuid ELSE call.ticket_id

\* No caller is in a call.
Quiet == \A s \in Sessions : session[s].pc = "idle"

\* A caller issues a call.
Start(s, calls) ==
  \E call \in calls :
    /\ session[s].pc = "idle"
    /\ session' = [session EXCEPT
                     ![s] = [Idle EXCEPT !.pc = "called",
                                         !.op = call.op,
                                         !.ticket_id = call.ticket_id,
                                         !.name = call.name,
                                         !.ultimate = call.ultimate,
                                         !.waited = lock # 0]]
    /\ UNCHANGED <<lock, dbvars, now, current_credentials, last, trashed_from,
                   destroyed>>

\* The call opens its transaction, waiting for the write lock if it takes it,
\* and sends its statements up to the one that ends the transaction.
Begin(s) ==
  LET call == session[s]
      r == Run(call, DB)
      held == Locks(Statements(call, DB))
  IN /\ call.pc = "called"
     /\ held => lock = 0
     /\ r.db.next_ticket <= MaxTicket + 1
     /\ r.db.next_trash_ticket <= MaxTrashTicket + 1
     /\ lock' = IF held THEN s ELSE lock
     /\ session' = [session EXCEPT ![s].pc = "open",
                                   ![s].ret = r.ret,
                                   ![s].target = Target(call, DB),
                                   ![s].work = {r.db}]
     /\ UNCHANGED <<dbvars, now, current_credentials, last, trashed_from,
                    destroyed>>

\* The call ends its transaction and returns: sql_commit before it returns 0,
\* sql_rollback before another code.
End(s) ==
  LET call == session[s]
  IN /\ call.pc = "open"
     /\ IF call.ret = 0
          THEN \E db \in call.work :
                 /\ Store(db)
                 /\ last' = Call(call.op, call.ticket_id, call.ultimate)
                 /\ trashed_from' =
                      Snapshot(db, IF call.op = "restore_ticket"
                                     THEN call.ticket_id ELSE 0)
                 /\ destroyed' =
                      IF call.op = "delete_ticket" /\ call.ultimate = 1
                        THEN destroyed \cup {call.ticket_id} ELSE destroyed
          ELSE UNCHANGED <<dbvars, last, trashed_from, destroyed>>
     /\ lock' = IF lock = s THEN 0 ELSE lock
     /\ session' = [session EXCEPT ![s].pc = "done", ![s].work = {}]
     /\ UNCHANGED <<now, current_credentials>>

\* The caller is ready for its next call.
Return(s) ==
  /\ session[s].pc = "done"
  /\ session' = [session EXCEPT ![s] = Idle]
  /\ UNCHANGED <<lock, dbvars, now, current_credentials, last, trashed_from,
                 destroyed>>

\* Tickets are created and deleted while no caller is in a call; then each of
\* the two callers makes one call that names a ticket.
NextNames ==
  \/ Quiet /\ CreateTicket
  \/ Quiet /\ DeleteTicket
  \/ \E s \in Sessions : Start(s, NameCalls)
  \/ \E s \in Sessions : Begin(s)
  \/ \E s \in Sessions : End(s)

SpecNames == Init /\ [][NextNames]_vars

\* Tickets are created and referenced while no caller is in a call; the two
\* callers delete and restore them, call after call.
NextMoves ==
  \/ Quiet /\ CreateTicket
  \/ Quiet /\ AddTag
  \/ Quiet /\ AddPermission
  \/ \E s \in Sessions : Start(s, MoveCalls)
  \/ \E s \in Sessions : Begin(s)
  \/ \E s \in Sessions : End(s)
  \/ \E s \in Sessions : Return(s)

SpecMoves == Init /\ [][NextMoves]_vars

C16_ConcurrentMoves ==
  /\ \A s \in Sessions :
       session[s].pc = "done" => session[s].ret \in {0, 2, 3}
  /\ \A u \in Uuids :
       /\ WithUuid(tickets, u) = {} \/ WithUuid(tickets_trash, u) = {}
       /\ Cardinality(WithUuid(tickets, u)) <= 1
       /\ Cardinality(WithUuid(tickets_trash, u)) <= 1
  /\ \A x \in tag_resources \cup permissions :
       \E r \in TableAt(x.resource_location) : r.id = x.resource

(***************************************************************************)
(* C17. Ultimate delete is terminal: a uuid on which delete_ticket with    *)
(* ultimate set has returned 0, for a ticket in tickets or in              *)
(* tickets_trash, is in neither table in any later state; make_uuid does   *)
(* not give it to a ticket created later.                                  *)
(***************************************************************************)
C17_UltimateDeleteTerminal ==
  \A u \in destroyed :
    /\ WithUuid(tickets, u) = {}
    /\ WithUuid(tickets_trash, u) = {}
    /\ u < next_uuid

\* A ticket was erased from the trashcan and another from tickets, and calls
\* that returned 0 came after the first ultimate delete.
C17_Witness ==
  /\ Cardinality(destroyed) = 2
  /\ last.op = "delete_ticket"
  /\ last.ultimate = 1
  /\ last.found = LOCATION_TRASH

\* The fields of a ticket that no operation changes.
Identity(r) ==
  [uuid |-> r.uuid, owner |-> r.owner, creation_time |-> r.creation_time]

\* The row with the name, comment and modification_time of another row.
WithMutableOf(r, x) ==
  [r EXCEPT !.name = x.name, !.comment = x.comment,
            !.modification_time = x.modification_time]

(***************************************************************************)
(* C18. Identity fields frozen: in every step, a uuid that has a row       *)
(* before and after the step (in tickets or tickets_trash) has the same    *)
(* owner and creation_time in both; a modify_ticket that returns 0 changes *)
(* nothing but the name, comment and modification_time of the row with the *)
(* given uuid; a soft delete and a restore that return 0 leave a row with  *)
(* the same uuid, owner and creation_time in the other table.              *)
(***************************************************************************)
C18_IdentityFrozen ==
  [][/\ \A x \in tickets \cup tickets_trash :
          \A y \in tickets' \cup tickets_trash' :
            y.uuid = x.uuid => Identity(y) = Identity(x)
     /\ last'.op = "modify_ticket" =>
          /\ tickets_trash' = tickets_trash
          /\ tag_resources' = tag_resources
          /\ permissions' = permissions
          /\ Cardinality(tickets') = Cardinality(tickets)
          /\ \A x \in tickets :
               \E y \in tickets' :
                 /\ WithMutableOf(y, x) = x
                 /\ x.uuid # last'.ticket_id => y = x
     /\ (last'.op = "delete_ticket" /\ last'.found = LOCATION_TABLE
         /\ last'.ultimate = 0) =>
          \A x \in WithUuid(tickets, last'.ticket_id) :
            \E t \in tickets_trash' : Identity(t) = Identity(x)
     /\ last'.op = "restore_ticket" =>
          \A t \in WithUuid(tickets_trash, last'.ticket_id) :
            \E x \in tickets' : Identity(x) = Identity(t)
    ]_vars

\* A ticket created earlier by another user has been restored under a new id
\* and then renamed by the current user, who holds the permission: its owner
\* and creation_time are the ones it was created with.
C18_Witness ==
  /\ last.op = "modify_ticket"
  /\ \E r \in tickets :
       /\ r.uuid = last.ticket_id
       /\ r.id # r.uuid
       /\ r.owner # current_credentials
       /\ r.creation_time < r.modification_time

\* The references of a set of tag or permission rows after those to
\* (from, old) were rewritten to (to, new).
Rewritten(refs, from, old, to, new) ==
  {IF x \in RefsTo(refs, from, old)
     THEN [x EXCEPT !.resource = new, !.resource_location = to]
     ELSE x : x \in refs}

\* The tags and the permissions attached to the row id at the location.
Attached(db, location, id) ==
  [tags |-> {x.tag : x \in RefsTo(db.tag_resources, location, id)},
   permissions |-> {<<x.name, x.subject>> :
                      x \in RefsTo(db.permissions, location, id)}]

(***************************************************************************)
(* C19. Cascade rewrite on move: a soft delete that returns 0 rewrites     *)
(* every tag and permission reference to (table, old id) into a reference *)
(* to (trash, id of the row just inserted in tickets_trash) and changes no *)
(* other reference; a restore that returns 0 does the same from trash to   *)
(* table; the tags and permissions attached to a ticket after a soft       *)
(* delete and the restore are those attached before.                       *)
(***************************************************************************)
C19_CascadeRewrite ==
  /\ \A x \in tickets :
       LET d == delete_ticket(DB, current_credentials, x.uuid, 0, TRUE, "none")
       IN d.ret = 0 =>
            \E t \in d.db.tickets_trash \ tickets_trash :
              /\ t.uuid = x.uuid
              /\ d.db.tickets_trash = tickets_trash \cup {t}
              /\ d.db.tag_resources =
                   Rewritten(tag_resources, LOCATION_TABLE, x.id,
                             LOCATION_TRASH, t.id)
              /\ d.db.permissions =
                   Rewritten(permissions, LOCATION_TABLE, x.id,
                             LOCATION_TRASH, t.id)
              /\ LET r == restore_ticket(d.db, current_credentials, x.uuid,
                                         "none")
                 IN r.ret = 0 =>
                      \E y \in r.db.tickets :
                        /\ y.uuid = x.uuid
                        /\ Attached(r.db, LOCATION_TABLE, y.id)
                             = Attached(DB, LOCATION_TABLE, x.id)
  /\ \A t \in tickets_trash :
       LET r == restore_ticket(DB, current_credentials, t.uuid, "none")
       IN r.ret = 0 =>
            \E y \in r.db.tickets \ tickets :
              /\ y.uuid = t.uuid
              /\ r.db.tickets = tickets \cup {y}
              /\ r.db.tag_resources =
                   Rewritten(tag_resources, LOCATION_TRASH, t.id,
                             LOCATION_TABLE, y.id)
              /\ r.db.permissions =
                   Rewritten(permissions, LOCATION_TRASH, t.id,
                             LOCATION_TABLE, y.id)

\* A ticket in the trashcan with a tag and a permission on it, another ticket
\* active: restore_ticket returns 0 and gives the ticket an id other than the
\* one it has in the trashcan.
C19_Witness ==
  \E t \in tickets_trash :
    /\ tickets # {}
    /\ RefsTo(tag_resources, LOCATION_TRASH, t.id) # {}
    /\ RefsTo(permissions, LOCATION_TRASH, t.id) # {}
    /\ LET r == restore_ticket(DB, current_credentials, t.uuid, "none")
       IN /\ r.ret = 0
          /\ \E y \in r.db.tickets : y.uuid = t.uuid /\ y.id # t.id

(***************************************************************************)
(* C20. modification_time is updated on every mutating operation: right    *)
(* after a create_ticket, a soft delete of an active ticket or a           *)
(* restore_ticket that returned 0, and after every modify_ticket that is   *)
(* given a name or a comment and returns 0, the modification_time of the   *)
(* ticket is the time of the operation, and its creation_time is not after *)
(* it.                                                                     *)
(***************************************************************************)
C20_ModificationTimeUpdated ==
  /\ last.op = "create_ticket" =>
       \A r \in tickets :
         r.id = sql_last_insert_id(next_ticket) =>
           r.modification_time = now /\ r.creation_time = now
  /\ \A x \in tickets, name \in NameArgs, comment \in CommentArgs :
       LET r == modify_ticket(DB, current_credentials, now, x.uuid, name,
                              comment, TRUE, "none")
       IN (r.ret = 0 /\ (name # NULL \/ comment # NULL)) =>
            \A y \in WithUuid(r.db.tickets, x.uuid) :
              y.modification_time = now /\ y.creation_time <= now
  /\ last.op = "restore_ticket" =>
       \A r \in WithUuid(tickets, last.ticket_id) :
         r.modification_time = now /\ r.creation_time <= now
  /\ (last.op = "delete_ticket" /\ last.found = LOCATION_TABLE
      /\ last.ultimate = 0) =>
       \A r \in WithUuid(tickets_trash, last.ticket_id) :
         r.modification_time = now /\ r.creation_time <= now

(***************************************************************************)
(* C20, amended. create_ticket sets creation_time and modification_time to *)
(* the time of the call; a modify_ticket that returns 0 sets               *)
(* modification_time to the time of the call when it is given a name or a  *)
(* comment (and leaves it when it is given neither); a soft delete and a   *)
(* restore carry modification_time over unchanged; creation_time is left   *)
(* as it is by all of them.                                                *)
(***************************************************************************)
C20_ModificationTimeOnWrite ==
  /\ \A name \in Names, comment \in CommentArgs :
       LET r == create_ticket(DB, current_credentials, now, name, comment,
                              TRUE)
       IN r.ret = 0 =>
            \E c \in r.db.tickets \ tickets :
              /\ r.db.tickets = tickets \cup {c}
              /\ c.creation_time = now
              /\ c.modification_time = now
  /\ \A x \in tickets, name \in NameArgs, comment \in CommentArgs :
       LET r == modify_ticket(DB, current_credentials, now, x.uuid, name,
                              comment, TRUE, "none")
       IN r.ret = 0 =>
            \E y \in r.db.tickets :
              /\ y.id = x.id
              /\ y.creation_time = x.creation_time
              /\ y.modification_time =
                   IF name # NULL \/ comment # NULL
                     THEN now ELSE x.modification_time
  /\ \A x \in tickets :
       LET r == delete_ticket(DB, current_credentials, x.uuid, 0, TRUE, "none")
       IN r.ret = 0 =>
            \E t \in r.db.tickets_trash :
              /\ t.uuid = x.uuid
              /\ t.creation_time = x.creation_time
              /\ t.modification_time = x.modification_time
  /\ \A t \in tickets_trash :
       LET r == restore_ticket(DB, current_credentials, t.uuid, "none")
       IN r.ret = 0 =>
            \E x \in r.db.tickets :
              /\ x.uuid = t.uuid
              /\ x.creation_time = t.creation_time
              /\ x.modification_time = t.modification_time

\* A ticket has been restored after the clock advanced: its modification_time
\* is still the earlier one, and modify_ticket with a comment returns 0 on it.
C20_Witness ==
  /\ last.op = "restore_ticket"
  /\ \E r \in tickets :
       /\ r.uuid = last.ticket_id
       /\ r.modification_time < now
       /\ modify_ticket(DB, current_credentials, now, r.uuid, NULL, "c", TRUE,
                        "none").ret = 0

====
